---- MODULE Spec2Model ----
(***************************************************************************)
(* Keep2Share downloader: one download session (Downloader.start) as a     *)
(* state machine.  Link acquisition (K2SAPI.generate_download_urls) is     *)
(* sequential; chunk transfer runs one worker per submitted chunk in a     *)
(* pool of `threads` workers; assembly runs after the pool has drained.    *)
(***************************************************************************)
EXTENDS Integers, Sequences, FiniteSets, TLC

\* ---------------------------------------------------------------- bounds
MaxProxies == 2        \* longest proxy list
MaxThreads == 2        \* largest --threads
MaxSize    == 3        \* largest content-length (bytes)
MaxSplit   == 2        \* largest --split-size (bytes)
MaxExtra   == 2        \* most raw proxies beyond the quota
MaxRefused == 2        \* most probes of one validation that fail

\* ------------------------------------------------------ program constants
WaitCeiling == 60      \* k2s.py: if wait_time > 60
max_retries == 5       \* main.py: max_retries = 5
RateDelay   == 5       \* main.py: wait_time = (attempt + 1) * 5
ProxyQuota  == 50      \* utils.py: if len(working_proxies) >= 50

Direct == 0            \* the proxy value None: no proxy, direct connection
NoKey  == "None"       \* free_download_key = None
Absent == -1           \* a file that does not exist / a JSON field not present

Min(a, b) == IF a < b THEN a ELSE b

VARIABLES
  pc,               \* position of Downloader.start
  filename,         \* self.filename ("None" until known)
  use_proxies,      \* self.use_proxies (self.proxy_manager is None iff FALSE)
  refresh_proxies,  \* self.refresh_proxies
  proxies,          \* self.proxy_manager.proxies
  threads,          \* self.threads
  split_size,       \* self.split_size
  \* --- the world outside the session
  remote_size,      \* size of the remote file (the content-length it is served with)
  part,             \* part files of tmp/: chunk id -> bytes in the file, or Absent
  dest,             \* the destination file: Absent or its content
  \* --- locals of generate_download_urls
  captcha_data,     \* id of the challenge held (0: none yet)
  idx,              \* position of the for loop in the candidate sequence
  working_link, free_download_key, working_proxy,
  urls,             \* urls built so far / download_urls once returned
  gen_i,            \* iterations of the count loop done so far
  \* --- what link acquisition put on the wire (observations)
  challenges,       \* number of requestCaptcha calls issued
  exlog,            \* exchange attempts: [pos, proxy, challenge sent, answer got]
  sleeps,           \* time.sleep durations of link acquisition, in order
  genlog,           \* proxy of each getUrl-by-key call, in order
  \* --- locals of start() from step 4 on
  total_size,       \* Absent until the HEAD request answered
  chunks,           \* the chunk plan
  sub_i,            \* position of `for chunk in chunks` (the submit loop)
  st,               \* chunk id -> "none" | "skipped" | "queued" | "running" | "done" | "failed"
  attempt,          \* chunk id -> loop variable of its _download_chunk call
  fetched,          \* chunk ids a ranged request was issued for (observation)
  complete,         \* "Download complete" was printed
  pbar,             \* pbar.n, the progress counter of tqdm(total=total_size)
  \* --- trace of _download_chunk calls (observations, kept by the traced run only)
  nreq,             \* chunk id -> ranged requests issued by its call
  backoffs,         \* chunk id -> sleeps after rate-limit-class answers, in order
  \* --- ProxyManager._validate_proxies (a raw proxy is named by the rank of its
  \*     probe in the order as_completed hands the probes over)
  vpc,              \* position: "idle" | "collect" | "stopped" | "returned"
  n_raw,            \* len(proxies), the raw candidates submitted to the pool
  yielded,          \* futures as_completed has handed over so far
  working_proxies,  \* the list being built
  refused,          \* proxies whose probe returned False (observation)
  discarded         \* probes finished or cancelled after the break (observation)

confvars  == <<filename, use_proxies, refresh_proxies, proxies, threads, split_size>>
linkvars  == <<captcha_data, idx, working_link, free_download_key, working_proxy,
               urls, gen_i, challenges, exlog, sleeps, genlog>>
xfervars  == <<remote_size, part, dest, total_size, chunks, sub_i, st, attempt,
               fetched, complete, pbar>>
tracevars == <<nreq, backoffs>>
valvars   == <<vpc, n_raw, yielded, working_proxies, refused, discarded>>
vars == <<pc, confvars, linkvars, xfervars, tracevars, valvars>>

\* chunk ids a plan can hold: at most MaxSize chunks (split_size 1)
ChunkIds == 0..(MaxSize - 1)

\* the proxy lists of n distinct addresses, n <= MaxProxies
ProxyLists == {[i \in 1..n |-> i] : n \in 0..MaxProxies}

\* ------------------------------------------------------------ remote API
\* getFilesInfo answers
InfoResponses == {"ok", "unavailable", "no_files", "network_error"}

\* getUrl answers to an exchange: a JSON object (or an exception)
Waits == {30, 60, 61, 500}
ExchangeResponses ==
       {[status |-> "error", message |-> m, time_wait |-> Absent, key |-> FALSE, url |-> FALSE]
          : m \in {"Invalid captcha code", "File not found", "Other"}}
  \cup {[status |-> "exception", message |-> "", time_wait |-> Absent, key |-> FALSE, url |-> FALSE]}
  \cup {[status |-> "ok", message |-> "", time_wait |-> w, key |-> k, url |-> u]
          : w \in Waits \cup {Absent}, k \in BOOLEAN, u \in BOOLEAN}


\* the answer {free_download_key}: a key at once, no wait, no url
KeyAnswer ==
  [status |-> "ok", message |-> "", time_wait |-> Absent, key |-> TRUE, url |-> FALSE]

\* ------------------------------------------------- K2SAPI.generate_download_urls
\* proxies = self.proxy_manager.get_all() if self.proxy_manager else [None]
Candidates == IF use_proxies THEN proxies ELSE <<Direct>>

\* a ceiling that also turns away a wait of exactly the ceiling
TooLongInclusive(wait_time) == wait_time >= WaitCeiling

\* if wait_time > 60
TooLong(wait_time) == wait_time > WaitCeiling

\* an error dispatch without the "File not found" branch
ErrorOutcomeNoNotFound(msg) ==
  IF msg = "Invalid captcha code" THEN "invalid_captcha" ELSE "api_error"

\* the dispatch on resp.get('message') of an answer with status "error"
ErrorOutcome(msg) ==
  IF msg = "Invalid captcha code" THEN "invalid_captcha"
  ELSE IF msg = "File not found" THEN "not_found"
  ELSE "api_error"

\* what one iteration of the candidate loop does with the answer of getUrl
ExchangeOutcome(resp) ==
  IF resp.status = "exception" THEN "exception"
  ELSE IF resp.status = "error" THEN ErrorOutcome(resp.message)
  ELSE IF resp.time_wait # Absent THEN
         IF TooLong(resp.time_wait) THEN "skip" ELSE "wait_bind"
  ELSE IF resp.url THEN "direct_url"
  ELSE IF resp.key THEN "bind"
  ELSE "nothing"

\* the position of the loop after an iteration that neither breaks nor raises:
\* `continue`, or falling off the end of the body, takes the next candidate
NextCandidate(i) == i + 1

\* a binding that does not record the candidate
BoundProxyUnset(proxy) == Direct

\* working_proxy = proxy
BoundProxy(proxy) == proxy

\* a session that gives up unless every requested URL was obtained
AfterLinksAllOrNothing(us) == IF Len(us) < threads THEN "ret_no_urls" ELSE "head"

\* download_urls back in start(): `if not download_urls: return`
AfterLinks(us) == IF us = <<>> THEN "ret_no_urls" ELSE "head"

\* pc of the loop once position i is to be taken
LoopAt(i) == IF i <= Len(Candidates) THEN "exchange" ELSE "keycheck"

\* start() step 1: self.k2s_api.get_name(self.file_id) unless a name was given
GetFileInfo ==
  /\ pc = "info"
  /\ \/ /\ filename # "None"
        /\ pc' = "proxies"
        /\ UNCHANGED filename
     \/ /\ filename = "None"
        /\ \E r \in InfoResponses :
             IF r = "ok"
               THEN pc' = "proxies" /\ filename' = "name"
               ELSE pc' = "ret_info" /\ UNCHANGED filename
  /\ UNCHANGED <<use_proxies, refresh_proxies, proxies, threads, split_size, linkvars,
                 xfervars, tracevars, valvars>>

\* start() step 2: fetch_proxies() when refreshing or when no proxy is loaded
PrepareProxies ==
  /\ pc = "proxies"
  /\ IF use_proxies /\ (refresh_proxies \/ proxies = <<>>)
       THEN \E ps \in ProxyLists : proxies' = ps
       ELSE UNCHANGED proxies
  /\ pc' = "captcha"
  /\ UNCHANGED <<filename, use_proxies, refresh_proxies, threads, split_size, linkvars,
                 xfervars, tracevars, valvars>>

\* the initial request_captcha() + solve_captcha(); either may raise, which
\* start() reports as "Error generating links"
InitialCaptcha ==
  /\ pc = "captcha"
  /\ challenges' = challenges + 1
  /\ \E ok \in BOOLEAN :
       IF ok THEN /\ captcha_data' = challenges + 1
                  /\ pc' = LoopAt(1)
             ELSE /\ pc' = "ret_link_error"
                  /\ UNCHANGED captcha_data
  /\ UNCHANGED <<confvars, idx, working_link, free_download_key, working_proxy,
                 urls, gen_i, exlog, sleeps, genlog, xfervars, tracevars, valvars>>

\* one iteration of `for proxy in proxies`
Exchange ==
  /\ pc = "exchange"
  /\ \E resp \in ExchangeResponses :
       LET proxy == Candidates[idx]
           out   == ExchangeOutcome(resp)
       IN
       /\ exlog' = Append(exlog, [pos |-> idx, proxy |-> proxy,
                                  challenge |-> captcha_data, resp |-> resp])
       /\ CASE out = "invalid_captcha" ->
                 \* a fresh challenge; a failure to get one is swallowed by
                 \* `except Exception: continue`
                 /\ challenges' = challenges + 1
                 /\ \E ok \in BOOLEAN :
                      captcha_data' = IF ok THEN challenges + 1 ELSE captcha_data
                 /\ idx' = NextCandidate(idx)
                 /\ pc' = LoopAt(idx')
                 /\ UNCHANGED <<working_link, free_download_key, working_proxy, urls, sleeps>>
            [] out = "not_found" ->
                 \* raise FileNotFoundError, re-raised, caught by start()
                 /\ pc' = "ret_not_found"
                 /\ UNCHANGED <<captcha_data, challenges, idx, working_link,
                                free_download_key, working_proxy, urls, sleeps>>
            [] out \in {"api_error", "exception", "skip", "nothing"} ->
                 /\ idx' = NextCandidate(idx)
                 /\ pc' = LoopAt(idx')
                 /\ UNCHANGED <<captcha_data, challenges, working_link,
                                free_download_key, working_proxy, urls, sleeps>>
            [] out = "wait_bind" ->
                 /\ sleeps' = Append(sleeps, resp.time_wait)
                 /\ free_download_key' = IF resp.key THEN "key" ELSE NoKey
                 /\ working_link' = TRUE
                 /\ working_proxy' = BoundProxy(proxy)
                 /\ pc' = "keycheck"
                 /\ UNCHANGED <<captcha_data, challenges, idx, urls>>
            [] out = "direct_url" ->
                 \* return [resp['url']]
                 /\ urls' = <<1>>
                 /\ pc' = AfterLinks(urls')
                 /\ UNCHANGED <<captcha_data, challenges, idx, working_link,
                                free_download_key, working_proxy, sleeps>>
            [] out = "bind" ->
                 /\ free_download_key' = "key"
                 /\ working_link' = TRUE
                 /\ working_proxy' = BoundProxy(proxy)
                 /\ pc' = "keycheck"
                 /\ UNCHANGED <<captcha_data, challenges, idx, urls, sleeps>>
  /\ UNCHANGED <<confvars, gen_i, genlog, xfervars, tracevars, valvars>>

\* if not working_link or not free_download_key: raise K2SError
KeyCheck ==
  /\ pc = "keycheck"
  /\ pc' = IF ~working_link \/ free_download_key = NoKey
             THEN "ret_link_error"
             ELSE IF threads > 0 THEN "generate" ELSE AfterLinks(urls)
  /\ UNCHANGED <<confvars, linkvars, xfervars, tracevars, valvars>>

\* one iteration of `for _ in range(count)`: getUrl by key through working_proxy
GenUrl ==
  /\ pc = "generate"
  /\ genlog' = Append(genlog, working_proxy)
  /\ gen_i' = gen_i + 1
  /\ \E r \in {"url", "no_url", "exception"} :
       urls' = IF r = "url" THEN Append(urls, Len(urls) + 1) ELSE urls
  /\ pc' = IF gen_i' < threads THEN "generate" ELSE AfterLinks(urls')
  /\ UNCHANGED <<confvars, captcha_data, idx, working_link, free_download_key,
                 working_proxy, challenges, exlog, sleeps, xfervars, tracevars, valvars>>


\* ------------------------------------------------- start() step 4: file size
\* a session that goes on to the plan without a size
AfterHeadFailureGoesOn == "plan"

\* except: print("Failed to get file size."); return
AfterHeadFailure == "ret_no_size"

\* requests.head(download_urls[0]); int(head.headers.get('content-length', 0))
HeadSize ==
  /\ pc = "head"
  /\ \E h \in {"ok", "no_length", "exception"} :
       CASE h = "ok"        -> total_size' = remote_size /\ pc' = "plan"
         [] h = "no_length" -> total_size' = 0 /\ pc' = "plan"
         [] h = "exception" -> pc' = AfterHeadFailure /\ UNCHANGED total_size
  /\ UNCHANGED <<confvars, linkvars, remote_size, part, dest, chunks, sub_i, st,
                 attempt, fetched, complete, pbar, tracevars, valvars>>

\* ------------------------------------------------- start() step 5: the plan
\* math.ceil(a / b), a >= 0, b > 0
CeilDiv(a, b) == (a + b - 1) \div b

NumSplits(total, split) == CeilDiv(total, split)

\* start = i * self.split_size
ChunkStart(i, split) == i * split

\* an end that is not clamped to the last byte of the file
ChunkEndUnclamped(i, total, split) == (i + 1) * split - 1

\* end = min((i + 1) * self.split_size - 1, total_size - 1)
ChunkEnd(i, total, split) == Min((i + 1) * split - 1, total - 1)

MakeChunk(i, total, split) ==
  [id    |-> i,
   start |-> ChunkStart(i, split),
   end   |-> ChunkEnd(i, total, split),
   size  |-> ChunkEnd(i, total, split) - ChunkStart(i, split) + 1]

\* str(i): the decimal digits of i
RECURSIVE Digits(_)
Digits(i) == IF i < 10 THEN <<i>> ELSE Digits(i \div 10) \o <<i % 10>>

\* s.zfill(w): zeros in front up to w characters
Zfill(ds, w) == IF Len(ds) >= w THEN ds ELSE [k \in 1..(w - Len(ds)) |-> 0] \o ds

\* chunk['filename'], less the prefix tmp/<filename>.part that all chunks share
PartName(i) == Zfill(Digits(i), 3)

\* chunks, in the order of `for i in range(num_splits)`
PlanOf(total, split) ==
  [k \in 1..NumSplits(total, split) |-> MakeChunk(k - 1, total, split)]

\* a split size of 0 makes the division raise: start() is left by the exception
PrepareChunks ==
  /\ pc = "plan"
  /\ IF split_size = 0
       THEN /\ pc' = "crashed"
            /\ UNCHANGED chunks
       ELSE /\ chunks' = PlanOf(total_size, split_size)
            /\ pc' = IF chunks' = <<>> THEN "collect" ELSE "submit"
  /\ UNCHANGED <<confvars, linkvars, remote_size, part, dest, total_size, sub_i, st,
                 attempt, fetched, complete, pbar, tracevars, valvars>>

\* ------------------------------------------------- start() step 6: transfer
\* a resume check that compares the file's size with end - start
AlreadyDownloadedOffByOne(c) == part[c.id] # Absent /\ part[c.id] = c.end - c.start

\* os.path.exists(chunk['filename']) and os.path.getsize(...) == chunk['size']
AlreadyDownloaded(c) == part[c.id] # Absent /\ part[c.id] = c.size

\* one iteration of `for chunk in chunks`: the resume check, then executor.submit
Submit ==
  /\ pc = "submit"
  /\ LET c == chunks[sub_i] IN
       IF AlreadyDownloaded(c)
         THEN /\ st' = [st EXCEPT ![c.id] = "skipped"]
              /\ pbar' = pbar + c.size
              /\ UNCHANGED part
         ELSE /\ st' = [st EXCEPT ![c.id] = "queued"]
              /\ part' = [part EXCEPT ![c.id] = Absent]
              /\ UNCHANGED pbar
  /\ sub_i' = sub_i + 1
  /\ pc' = IF sub_i' > Len(chunks) THEN "collect" ELSE "submit"
  /\ UNCHANGED <<confvars, linkvars, remote_size, dest, total_size, chunks, attempt,
                 fetched, complete, tracevars, valvars>>

\* a pool in which a worker whose task raised is lost
RunningOrLost == {c \in ChunkIds : st[c] \in {"running", "failed"}}

\* tasks a worker of the pool is busy with
Running == {c \in ChunkIds : st[c] = "running"}
Queued  == {c \in ChunkIds : st[c] = "queued"}

\* a pool that starts a task as soon as it is submitted
CanRunUnbounded(c) == st[c] \in {"running", "queued"}

\* ThreadPoolExecutor(max_workers=self.threads): a queued task is taken, oldest
\* first, when fewer than `threads` workers are busy
CanRun(c) ==
  \/ st[c] = "running"
  \/ /\ st[c] = "queued"
     /\ Cardinality(Running) < threads
     /\ \A d \in Queued : c <= d

\* what a ranged request can come to; "cut": the body breaks after `bytes` bytes
AttemptOutcomes(size) ==
       {[kind |-> k, bytes |-> 0] : k \in {"rate_limited", "http_error", "net_error"}}
  \cup {[kind |-> "ok", bytes |-> size]}
  \cup {[kind |-> "cut", bytes |-> b] : b \in 0..(size - 1)}

\* f.write(data); pbar.update(len(data)) for every block of the body received
Streamed(n, o) == IF o.kind \in {"ok", "cut"} THEN n + o.bytes ELSE n

\* a backoff that does not grow with the attempt
RateLimitWaitFlat(a) == RateDelay

\* wait_time = (attempt + 1) * 5
RateLimitWait(a) == (a + 1) * RateDelay

\* if attempt == max_retries - 1: raise
LastAttempt(a) == a = max_retries - 1

\* the call is over: it returned ("done") or raised ("failed")
Ends(c, how) ==
  /\ st' = [st EXCEPT ![c] = how]
  /\ attempt' = [attempt EXCEPT ![c] = 0]

\* `continue` / the end of the loop body: the next attempt, if range() has one
Retries(c) ==
  IF attempt[c] + 1 < max_retries
    THEN /\ st' = [st EXCEPT ![c] = "running"]
         /\ attempt' = [attempt EXCEPT ![c] = attempt[c] + 1]
    ELSE Ends(c, "done")

\* one iteration of `for attempt in range(max_retries)` of _download_chunk
DownloadAttempt(c, o) ==
  /\ pc \in {"submit", "collect"}
  /\ CanRun(c)
  /\ fetched' = fetched \cup {c}
  /\ pbar' = Streamed(pbar, o)
  /\ CASE o.kind = "ok" ->
            /\ part' = [part EXCEPT ![c] = o.bytes]
            /\ Ends(c, "done")
       [] o.kind = "rate_limited" ->
            \* time.sleep(wait_time); continue
            /\ UNCHANGED part
            /\ Retries(c)
       [] o.kind = "http_error" ->
            /\ UNCHANGED part
            /\ Ends(c, "failed")
       [] o.kind = "net_error" ->
            /\ UNCHANGED part
            /\ IF LastAttempt(attempt[c]) THEN Ends(c, "failed") ELSE Retries(c)
       [] o.kind = "cut" ->
            \* open(..., 'wb') truncates, then some of the body is written
            /\ part' = [part EXCEPT ![c] = o.bytes]
            /\ IF LastAttempt(attempt[c]) THEN Ends(c, "failed") ELSE Retries(c)
  /\ UNCHANGED <<pc, confvars, linkvars, remote_size, dest, total_size, chunks, sub_i,
                 complete, valvars>>

\* ids of the chunks of the plan
Planned == {c \in ChunkIds : c < Len(chunks)}

Attempt ==
  \E c \in Planned : \E o \in AttemptOutcomes(chunks[c + 1].size) :
    /\ DownloadAttempt(c, o)
    /\ UNCHANGED tracevars

\* the same step, with the call's requests and rate-limit sleeps written down
TracedAttempt ==
  \E c \in Planned : \E o \in AttemptOutcomes(chunks[c + 1].size) :
    /\ DownloadAttempt(c, o)
    /\ nreq' = [nreq EXCEPT ![c] = @ + 1]
    /\ backoffs' = [backoffs EXCEPT ![c] =
                      IF o.kind = "rate_limited"
                        THEN Append(@, RateLimitWait(attempt[c])) ELSE @]

\* ------------------------------------------------- start() step 7: assembly
NoFile == [exists |-> FALSE, content |-> <<>>]
OldFile == [exists |-> TRUE, content |-> <<[chunk |-> Absent, bytes |-> 1]>>]

\* the loop of _assemble_file from plan position i on, `out` written so far
RECURSIVE AssembleFrom(_, _, _)
AssembleFrom(i, out, pt) ==
  IF i > Len(chunks)
    THEN [dest |-> out, part |-> pt, complete |-> TRUE]
    ELSE LET c == chunks[i] IN
         IF pt[c.id] # Absent
           THEN AssembleFrom(i + 1,
                             Append(out, [chunk |-> c.id, bytes |-> pt[c.id]]),
                             [pt EXCEPT ![c.id] = Absent])
           ELSE [dest |-> out, part |-> pt, complete |-> FALSE]

\* os.remove(self.filename) if it exists; open(self.filename, 'wb'); the loop
AssembleFile == AssembleFrom(1, <<>>, part)

\* the pool has drained (the `with` block is left), pbar.close(), _assemble_file
Assemble ==
  /\ pc = "collect"
  /\ \A c \in ChunkIds : st[c] \notin {"queued", "running"}
  /\ LET r == AssembleFile IN
       /\ dest' = [exists |-> TRUE, content |-> r.dest]
       /\ part' = r.part
       /\ complete' = r.complete
  /\ pc' = "returned"
  /\ UNCHANGED <<confvars, linkvars, remote_size, total_size, chunks, sub_i, st,
                 attempt, fetched, pbar, tracevars, valvars>>

\* _assemble_file(chunks) called once more on the plan it has just assembled
AssembleAgain ==
  /\ pc = "returned"
  /\ LET r == AssembleFile IN
       /\ dest' = [exists |-> TRUE, content |-> r.dest]
       /\ part' = r.part
       /\ complete' = r.complete
  /\ pc' = "reassembled"
  /\ UNCHANGED <<confvars, linkvars, remote_size, total_size, chunks, sub_i, st,
                 attempt, fetched, pbar, tracevars, valvars>>

\* ------------------------------------------ ProxyManager._validate_proxies
\* random.shuffle makes the submission order arbitrary and the pool makes the
\* completion order arbitrary; nothing in the code looks at a proxy's text, so
\* a raw proxy is named by the rank of its probe in the order of completion

\* a quota test that lets one more entry in
QuotaReachedLate(n) == n > ProxyQuota

\* if len(working_proxies) >= 50
QuotaReached(n) == n >= ProxyQuota

\* proxy = future_to_proxy[future] of the future as_completed hands over next
NextProbe == yielded + 1

\* one iteration of `for future in as_completed(future_to_proxy)`; result is
\* future.result(), the value _check_proxy returned for this proxy
Collect(result) ==
  /\ pc = "proxies"
  /\ vpc = "collect"
  /\ yielded < n_raw
  /\ yielded' = yielded + 1
  /\ IF result
       THEN /\ working_proxies' = Append(working_proxies, NextProbe)
            \* executor.shutdown(wait=False, cancel_futures=True); break
            /\ vpc' = IF QuotaReached(Len(working_proxies')) THEN "stopped" ELSE "collect"
            /\ UNCHANGED refused
       ELSE /\ Cardinality(refused) < MaxRefused
            /\ refused' = refused \cup {NextProbe}
            /\ UNCHANGED <<working_proxies, vpc>>
  /\ UNCHANGED <<pc, confvars, linkvars, xfervars, tracevars, n_raw, discarded>>

CollectProbe == \E result \in BOOLEAN : Collect(result)

\* after the break: a probe still in the pool runs to its end, or is cancelled
\* by shutdown(cancel_futures=True); either way nobody reads its result
LateProbe ==
  /\ pc = "proxies"
  /\ vpc = "stopped"
  /\ discarded < n_raw - yielded
  /\ discarded' = discarded + 1
  /\ UNCHANGED <<pc, confvars, linkvars, xfervars, tracevars, vpc, n_raw, yielded,
                 working_proxies, refused>>

\* the with block is left once the pool has drained; return working_proxies,
\* and fetch_proxies: self.proxies = <the list>; self._save_proxies()
FinishValidation ==
  /\ pc = "proxies"
  /\ \/ vpc = "collect" /\ yielded = n_raw
     \/ vpc = "stopped" /\ discarded = n_raw - yielded
  /\ vpc' = "returned"
  /\ proxies' = working_proxies
  /\ pc' = "captcha"
  /\ UNCHANGED <<filename, use_proxies, refresh_proxies, threads, split_size, linkvars,
                 xfervars, tracevars, n_raw, yielded, working_proxies, refused, discarded>>

\* ------------------------------------------------------- initial states
\* Downloader.__init__ from the command line: parse_size gives a size >= 0
InitConfig ==
  /\ filename \in {"None", "name"}
  /\ use_proxies \in BOOLEAN
  /\ refresh_proxies \in BOOLEAN
  /\ proxies \in IF use_proxies THEN ProxyLists ELSE {<<>>}
  /\ threads \in 1..MaxThreads
  /\ split_size \in 0..MaxSplit

InitLinkLocals ==
  /\ captcha_data = 0
  /\ idx = 1
  /\ working_link = FALSE
  /\ free_download_key = NoKey
  /\ working_proxy = Direct
  /\ urls = <<>>
  /\ gen_i = 0
  /\ challenges = 0
  /\ exlog = <<>>
  /\ sleeps = <<>>
  /\ genlog = <<>>

InitTransferLocals ==
  /\ total_size = Absent
  /\ chunks = <<>>
  /\ sub_i = 1
  /\ st = [c \in ChunkIds |-> "none"]
  /\ attempt = [c \in ChunkIds |-> 0]
  /\ fetched = {}
  /\ complete = FALSE
  /\ pbar = 0
  /\ nreq = [c \in ChunkIds |-> 0]
  /\ backoffs = [c \in ChunkIds |-> <<>>]

\* a session whose proxy list is not being validated
NoValidation ==
  /\ vpc = "idle"
  /\ n_raw = 0
  /\ yielded = 0
  /\ working_proxies = <<>>
  /\ refused = {}
  /\ discarded = 0

\* part files left by earlier sessions, of any size; the files of ids the plan
\* for this file does not hold are never looked at and are left out
PartFiles(total, split) ==
  LET n == IF split = 0 THEN 0 ELSE NumSplits(total, split) IN
  {f \in [ChunkIds -> Absent..MaxSplit] : \A c \in ChunkIds : c >= n => f[c] = Absent}

InitWorld ==
  /\ remote_size \in 0..MaxSize
  /\ dest \in {NoFile, OldFile}
  /\ part \in PartFiles(remote_size, split_size)

\* a world with nothing on disk
EmptyWorld ==
  /\ remote_size = MaxSize
  /\ dest = NoFile
  /\ part = [c \in ChunkIds |-> Absent]

\* start() with links acquired over the direct path: the exchange answered with
\* a key at once and n of the `threads` getUrl-by-key calls gave a URL
LinksAcquired ==
  /\ pc = "head"
  /\ filename = "name"
  /\ use_proxies = FALSE
  /\ refresh_proxies = FALSE
  /\ proxies = <<>>
  /\ captcha_data = 1
  /\ challenges = 1
  /\ idx = 1
  /\ working_link = TRUE
  /\ free_download_key = "key"
  /\ working_proxy = Direct
  /\ gen_i = threads
  /\ exlog = <<[pos |-> 1, proxy |-> Direct, challenge |-> 1, resp |-> KeyAnswer]>>
  /\ sleeps = <<>>
  /\ genlog = [i \in 1..threads |-> Direct]
  /\ \E n \in 1..threads : urls = [i \in 1..n |-> i]

\* a session from its construction on
Init ==
  /\ NoValidation
  /\ pc = "info"
  /\ InitConfig
  /\ InitWorld
  /\ InitLinkLocals
  /\ InitTransferLocals

Next ==
  \/ GetFileInfo
  \/ PrepareProxies
  \/ InitialCaptcha
  \/ Exchange
  \/ KeyCheck
  \/ GenUrl
  \/ HeadSize
  \/ PrepareChunks
  \/ Submit
  \/ Attempt
  \/ Assemble

Spec == Init /\ [][Next]_vars

\* link acquisition: the session up to the point where it holds its links
InitLink ==
  /\ NoValidation
  /\ pc = "info"
  /\ InitConfig
  /\ EmptyWorld
  /\ InitLinkLocals
  /\ InitTransferLocals

NextLink ==
  \/ GetFileInfo
  \/ PrepareProxies
  \/ InitialCaptcha
  \/ Exchange
  \/ KeyCheck
  \/ GenUrl

SpecLink == InitLink /\ [][NextLink]_vars

\* the session up to its plan, in a world where the destination may hold an
\* older file and tmp/ a part file left by an earlier session
InitAcquire ==
  /\ NoValidation
  /\ pc = "info"
  /\ InitConfig
  /\ remote_size = MaxSize
  /\ dest \in {NoFile, OldFile}
  /\ part \in {[c \in ChunkIds |-> Absent], [c \in ChunkIds |-> IF c = 0 THEN 1 ELSE Absent]}
  /\ InitLinkLocals
  /\ InitTransferLocals

NextAcquire ==
  \/ NextLink
  \/ HeadSize

SpecAcquire == InitAcquire /\ [][NextAcquire]_vars

\* chunk transfer and assembly: the session from the point where it holds its links
InitTransfer ==
  /\ NoValidation
  /\ threads \in 1..MaxThreads
  /\ split_size \in 0..MaxSplit
  /\ LinksAcquired
  /\ InitWorld
  /\ InitTransferLocals

NextTransfer ==
  \/ HeadSize
  \/ PrepareChunks
  \/ Submit
  \/ Attempt
  \/ Assemble

SpecTransfer == InitTransfer /\ [][NextTransfer]_vars

\* the pool under the scheduling the interpreter gives: the main thread and the
\* workers keep taking steps while they have one to take; a session that got
\* all its URLs, has no file at the destination yet and a non-empty plan, and
\* whose part files on disk are whole
InitPool ==
  /\ InitTransfer
  /\ split_size >= 1
  /\ remote_size >= 1
  /\ dest = NoFile
  /\ Len(urls) = threads
  /\ \A c \in ChunkIds :
       part[c] = Absent \/ AlreadyDownloaded(MakeChunk(c, remote_size, split_size))

SpecPool ==
  /\ InitPool /\ [][NextTransfer]_vars
  /\ WF_vars(HeadSize) /\ WF_vars(PrepareChunks) /\ WF_vars(Submit)
  /\ WF_vars(Attempt) /\ WF_vars(Assemble)

\* one _download_chunk call, traced: a file of a single chunk, one worker
InitChunk ==
  /\ NoValidation
  /\ threads = 1
  /\ split_size \in 1..MaxSplit
  /\ LinksAcquired
  /\ InitWorld
  /\ remote_size \in 1..split_size
  /\ InitTransferLocals

NextChunk ==
  \/ HeadSize
  \/ PrepareChunks
  \/ Submit
  \/ TracedAttempt
  \/ Assemble

SpecChunk == InitChunk /\ [][NextChunk]_vars

\* the assembler run twice: a session of one worker, then a second _assemble_file
InitAssemble ==
  /\ NoValidation
  /\ threads = 1
  /\ split_size \in 1..MaxSplit
  /\ LinksAcquired
  /\ InitWorld
  /\ InitTransferLocals

NextAssemble ==
  \/ HeadSize
  \/ PrepareChunks
  \/ Submit
  \/ Attempt
  \/ Assemble
  \/ AssembleAgain

SpecAssemble == InitAssemble /\ [][NextAssemble]_vars

\* sizes of the raw set the two proxy endpoints give: a few, or the quota and more
RawCounts == (0..MaxExtra) \cup {ProxyQuota + e : e \in 0..MaxExtra}

\* fetch_proxies called by step 2 of start(): the pool holds one probe per raw proxy
InitValidate ==
  /\ pc = "proxies"
  /\ filename = "name"
  /\ use_proxies = TRUE
  /\ refresh_proxies = TRUE
  /\ proxies = <<>>
  /\ threads = 1
  /\ split_size = 1
  /\ EmptyWorld
  /\ InitLinkLocals
  /\ InitTransferLocals
  /\ vpc = "collect"
  /\ n_raw \in RawCounts
  /\ yielded = 0
  /\ working_proxies = <<>>
  /\ refused = {}
  /\ discarded = 0

NextValidate ==
  \/ CollectProbe
  \/ LateProbe
  \/ FinishValidation

SpecValidate == InitValidate /\ [][NextValidate]_vars

\* ======================================================= properties
Last(s) == s[Len(s)]

IsInvalidCaptcha(r) == r.status = "error" /\ r.message = "Invalid captcha code"
IsFileNotFound(r)   == r.status = "error" /\ r.message = "File not found"
HasWait(r)          == r.status = "ok" /\ r.time_wait # Absent

\* ---------------------------------------------------------------- C1
MB == 1048576

RECURSIVE SumSizes(_)
SumSizes(cs) == IF cs = <<>> THEN 0 ELSE Head(cs).size + SumSizes(Tail(cs))

\* cs has ceil(total / split) chunks, ids 0..n-1, that partition [0, total)
IsPartition(cs, total, split) ==
  LET n == Len(cs) IN
  /\ n >= 1
  /\ (n - 1) * split < total /\ total <= n * split
  /\ \A k \in 1..n :
       /\ cs[k].id = k - 1
       /\ cs[k].size = cs[k].end - cs[k].start + 1
       /\ cs[k].start <= cs[k].end
  /\ cs[1].start = 0
  /\ \A k \in 1..(n - 1) : cs[k].end + 1 = cs[k + 1].start
  /\ SumSizes(cs) = total
  /\ cs[n].end = total - 1

\* C1: for a total size > 0 and a chunk size > 0 the plan built by start() has
\* ceil(total / chunk) chunks with ids 0..n-1 that partition [0, total): the
\* first starts at 0, each next one starts right after the one before, each
\* size is end - start + 1, the sizes sum to the total and the last one ends at
\* total - 1; 45 MB in chunks of 20 MB gives [0,20MB-1] [20MB,40MB-1] [40MB,45MB-1].
C1_PlanPartitions ==
  /\ (pc \in {"submit", "collect", "returned"} /\ total_size > 0)
       => IsPartition(chunks, total_size, split_size)
  /\ PlanOf(45 * MB, 20 * MB) =
       << [id |-> 0, start |-> 0,       end |-> 20 * MB - 1, size |-> 20 * MB],
          [id |-> 1, start |-> 20 * MB, end |-> 40 * MB - 1, size |-> 20 * MB],
          [id |-> 2, start |-> 40 * MB, end |-> 45 * MB - 1, size |-> 5 * MB] >>

\* a plan of two chunks whose last chunk is the shorter one
C1_Witness ==
  /\ pc = "collect"
  /\ Len(chunks) = 2
  /\ chunks[2].size < chunks[1].size
  /\ chunks[2].end = total_size - 1

\* ---------------------------------------------------------------- C2
\* a planned chunk whose part file is missing or not of the chunk's size
BadPart(k) == part[chunks[k].id] # chunks[k].size

\* C2: an assembly that finds a planned chunk's part file missing or of the
\* wrong size leaves the destination file as it was (content or absence) and
\* deletes no part file.
C2_AbortLeavesDestination ==
  [][ (pc = "collect" /\ pc' = "returned" /\ \E k \in 1..Len(chunks) : BadPart(k))
        => (dest' = dest /\ part' = part) ]_vars

\* ---------------------------------------------------------------- C3
\* C3: once a chunk has failed, no step writes the destination file and the
\* session never reports a completed download.
C3_FailedChunkRefusesAssembly ==
  [][ (\E c \in Planned : st[c] = "failed") => (dest' = dest /\ ~complete') ]_vars

\* ---------------------------------------------------------------- C4
AllSkipped == Planned # {} /\ \A c \in Planned : st[c] = "skipped"

\* the file made of every chunk of the plan, whole and in id order
WholeFile ==
  [exists |-> TRUE,
   content |-> [k \in 1..Len(chunks) |-> [chunk |-> k - 1, bytes |-> chunks[k].size]]]

\* C4: the submit loop skips a chunk whose part file has the planned size; a
\* skipped chunk stays skipped (it is never queued or run) and no ranged
\* request is issued for it, nor for a chunk the loop has not reached; when
\* every chunk was skipped no ranged request was issued at all, the assembler
\* still runs, and it leaves the whole file at the destination.
C4_ResumeSkipsCompleteParts ==
  /\ [][ \A k \in 1..Len(chunks) :
           (pc = "submit" /\ sub_i = k /\ sub_i' = k + 1
              /\ part[chunks[k].id] = chunks[k].size)
             => st'[chunks[k].id] = "skipped" ]_vars
  /\ [][ \A c \in ChunkIds : st[c] = "skipped" => st'[c] = "skipped" ]_vars
  /\ [](\A c \in ChunkIds : st[c] \in {"none", "skipped"} => c \notin fetched)
  /\ []((AllSkipped /\ pc = "collect") => (fetched = {} /\ ENABLED Assemble))
  /\ []((AllSkipped /\ pc = "returned") => (fetched = {} /\ complete /\ dest = WholeFile))

\* a session of two chunks, both already on disk, assembled without a request
C4_Witness ==
  /\ pc = "returned"
  /\ Len(chunks) = 2
  /\ AllSkipped
  /\ fetched = {}
  /\ dest = WholeFile

\* ---------------------------------------------------------------- C5
\* C5: a _download_chunk call issues at most 5 ranged requests, and the sleeps
\* it makes after answers 429, 509 and 503 are multiples of the fixed delay
\* that grow strictly from one to the next.
C5_BoundedAttemptsGrowingBackoff ==
  \A c \in ChunkIds :
    /\ nreq[c] <= 5
    /\ \A k \in 1..Len(backoffs[c]) :
         \E a \in 1..5 : backoffs[c][k] = a * RateDelay
    /\ \A k \in 1..(Len(backoffs[c]) - 1) : backoffs[c][k] < backoffs[c][k + 1]

\* a call whose five requests were all rate-limited
C5_Witness ==
  /\ nreq[0] = 5
  /\ backoffs[0] = <<5, 10, 15, 20, 25>>

\* ---------------------------------------------------------------- C6
\* C6: after an exchange answered "Invalid captcha code" the next exchange is
\* made at the same position of the candidate sequence: the answer leaves the
\* candidate index where it was.
C6_InvalidCaptchaRetriesSameCandidate ==
  \A k \in 1..Len(exlog) :
    IsInvalidCaptcha(exlog[k].resp) =>
      IF k < Len(exlog)
        THEN exlog[k + 1].pos = exlog[k].pos
        ELSE pc = "exchange" /\ idx = exlog[k].pos

\* ---------------------------------------------------------------- C7
\* C7: with proxies enabled and an empty proxy list, link acquisition that
\* ends without a key has made exactly one exchange, over the direct path.
C7_EmptyPoolTriesDirect ==
  (use_proxies /\ proxies = <<>> /\ pc = "ret_link_error" /\ captcha_data > 0)
    => (Len(exlog) = 1 /\ exlog[1].proxy = Direct)

\* ---------------------------------------------------------------- C8
\* C8: every getUrl-by-key call goes through the proxy of the exchange that
\* yielded the key (the last exchange made), and once the links are returned
\* there were `threads` such calls.
C8_UrlsThroughBoundPath ==
  /\ Len(genlog) <= threads
  /\ (genlog # <<>>) =>
       /\ exlog # <<>>
       /\ Last(exlog).resp.key
       /\ \A k \in 1..Len(genlog) : genlog[k] = Last(exlog).proxy
  /\ (genlog # <<>> /\ pc \in {"head", "ret_no_urls"}) => Len(genlog) = threads

\* a key bound at the second candidate, two URL calls made through it
C8_Witness ==
  /\ pc = "head"
  /\ Len(exlog) = 2
  /\ Last(exlog).proxy # Direct
  /\ Len(genlog) = 2
  /\ genlog[2] = Last(exlog).proxy

\* ---------------------------------------------------------------- C9
\* C9: an exchange answered "File not found" is the last step of the session:
\* it is the last exchange, it asked for no new challenge, no getUrl-by-key
\* call and no chunk work has happened, and no step of the session (of link
\* acquisition, transfer or assembly) can follow.
C9_NotFoundEndsSession ==
  \A k \in 1..Len(exlog) :
    IsFileNotFound(exlog[k].resp) =>
      /\ k = Len(exlog)
      /\ pc = "ret_not_found"
      /\ challenges =
           1 + Cardinality({j \in 1..Len(exlog) : IsInvalidCaptcha(exlog[j].resp)})
      /\ genlog = <<>> /\ urls = <<>>
      /\ total_size = Absent /\ chunks = <<>> /\ fetched = {}
      /\ \A c \in ChunkIds : st[c] = "none"
      /\ ~complete
      /\ ~ENABLED Next

\* "File not found" at the first of two candidates
C9_Witness ==
  /\ pc = "ret_not_found"
  /\ Len(Candidates) = 2
  /\ Len(exlog) = 1
  /\ IsFileNotFound(exlog[1].resp)

\* ---------------------------------------------------------------- C10
\* the waits of the exchanges that answered a wait of at most 60 s, in order
RECURSIVE SleptWaits(_)
SleptWaits(log) ==
  IF log = <<>> THEN <<>>
  ELSE LET r == Head(log).resp IN
       (IF HasWait(r) /\ r.time_wait <= 60 THEN <<r.time_wait>> ELSE <<>>)
         \o SleptWaits(Tail(log))

\* C10: a wait above 60 s is not slept and binds nothing, and the loop goes on
\* to the next candidate; a wait of at most 60 s is slept exactly once and the
\* candidate is bound (the sleeps of link acquisition are exactly those waits).
C10_WaitCeiling ==
  /\ sleeps = SleptWaits(exlog)
  /\ \A k \in 1..Len(exlog) :
       LET e == exlog[k] IN
       HasWait(e.resp) =>
         IF e.resp.time_wait > 60
           THEN /\ (k < Len(exlog)) => exlog[k + 1].pos = e.pos + 1
                /\ (k = Len(exlog)) =>
                     /\ idx = e.pos + 1
                     /\ ~working_link
                     /\ free_download_key = NoKey
                     /\ pc = IF e.pos < Len(Candidates) THEN "exchange"
                             ELSE IF ENABLED KeyCheck THEN "keycheck"
                             ELSE "ret_link_error"
           ELSE /\ k = Len(exlog)
                /\ working_link
                /\ working_proxy = e.proxy
                /\ free_download_key = (IF e.resp.key THEN "key" ELSE NoKey)

\* a wait of 500 s at the first candidate, then a wait of 60 s at the second
C10_Witness ==
  /\ Len(exlog) = 2
  /\ HasWait(exlog[1].resp) /\ exlog[1].resp.time_wait = 500
  /\ HasWait(exlog[2].resp) /\ exlog[2].resp.time_wait = 60
  /\ sleeps = <<60>>
  /\ working_proxy = exlog[2].proxy

\* ---------------------------------------------------------------- C11
\* C11: for every raw set and every completion order, the list _validate_proxies
\* builds and returns never has more than ProxyQuota (50) entries, holds no
\* proxy whose probe returned False, and is left as it is by every probe that
\* ends after the quota was reached.
C11_QuotaBoundsValidation ==
  /\ [](/\ Len(working_proxies) <= ProxyQuota
        /\ \A k \in 1..Len(working_proxies) : working_proxies[k] \notin refused
        /\ (vpc = "returned" => proxies = working_proxies))
  /\ [][vpc = "stopped" => working_proxies' = working_proxies]_vars

\* the quota was reached with probes still in the pool, one probe had failed
C11_Witness ==
  /\ vpc = "returned"
  /\ Len(proxies) = ProxyQuota
  /\ discarded > 0
  /\ refused # {}

\* ---------------------------------------------------------------- C12
\* C12: once the key is bound and the `threads` getUrl-by-key calls are made,
\* a session holding at least one URL (even fewer than asked for) goes on to
\* step 4 with exactly the URLs obtained, and a session holding none has ended:
\* nothing was planned, fetched or assembled and no step can follow.
C12_PartialLinksProceed ==
  (genlog # <<>> /\ Len(genlog) = threads) =>
    IF urls = <<>>
      THEN /\ pc = "ret_no_urls"
           /\ total_size = Absent /\ chunks = <<>> /\ fetched = {}
           /\ \A c \in ChunkIds : st[c] = "none" /\ part[c] = Absent
           /\ dest = NoFile /\ ~complete
           /\ ~ENABLED Next
      ELSE /\ pc = "head"
           /\ Len(urls) <= threads
           /\ ENABLED HeadSize

\* two URLs asked for, one obtained, the session at its HEAD request
C12_Witness ==
  /\ pc = "head"
  /\ threads = 2
  /\ Len(genlog) = 2
  /\ Len(urls) = 1

\* ---------------------------------------------------------------- C13
\* C13: a second run of the assembler, right after a run that was given every
\* part file at its planned size and wrote the whole file, leaves the
\* destination byte for byte as the first run left it.
C13_AssembleTwiceIdempotent ==
  [][ (pc = "returned" /\ pc' = "reassembled" /\ complete /\ dest = WholeFile)
        => dest' = dest ]_vars

\* ---------------------------------------------------------------- C14
\* C14: a _download_chunk call returns normally only if one of its attempts
\* succeeded, that is, with the part file written at the planned size; a call
\* whose attempts all failed (rate-limited, transient, or a mix) has raised.
C14_ExhaustedChunkFails ==
  \A c \in Planned :
    (pc \in {"submit", "collect"} /\ st[c] = "done") => part[c] = chunks[c + 1].size

\* ---------------------------------------------------------------- C15
\* C15: link acquisition gives up for want of a key only after every candidate
\* has had an exchange: the exchanges made were at positions 1, 2, ... up to
\* the last candidate (an attempt that brings no usable key moves on to the
\* next candidate).
C15_ExhaustedAfterEveryCandidate ==
  (pc = "ret_link_error" /\ captcha_data > 0) =>
    \A i \in 1..Len(Candidates) : \E k \in 1..Len(exlog) : exlog[k].pos = i

\* ---------------------------------------------------------------- C16
\* C16: a session whose file size was read as 0 (or less), or whose chunk size
\* is 0 (or less), issues no ranged request, never runs the assembler and never
\* reports a completed download.
C16_DegenerateInputsRejected ==
  (total_size # Absent /\ (total_size <= 0 \/ split_size <= 0)) =>
    (fetched = {} /\ pc # "returned" /\ ~complete)

\* ---------------------------------------------------------------- C17
\* C17: whatever the other chunks' calls came to, a queued chunk is taken as
\* soon as a worker is free, it leaves the queue only by its own request being
\* issued, the assembler runs only when every planned chunk was skipped or had
\* its call ended (it returned or it raised) after at least one request, and
\* every session that got its file size does come to that point.
C17_FailuresIsolated ==
  /\ []((/\ pc \in {"submit", "collect"}
         /\ \E c \in ChunkIds : st[c] = "queued"
         /\ Cardinality({c \in ChunkIds : st[c] = "running"}) < threads)
          => \E c \in ChunkIds : st[c] = "queued" /\ CanRun(c))
  /\ [][ \A c \in ChunkIds :
           (st[c] = "queued" /\ st'[c] # "queued") => c \in fetched' ]_vars
  /\ [](pc = "returned" =>
          \A c \in Planned :
            /\ st[c] \in {"skipped", "done", "failed"}
            /\ st[c] # "skipped" => c \in fetched)
  /\ <>(pc \in {"returned", "ret_no_size"})

\* one worker: chunk 0 failed, chunk 1 was still fetched, then the pool drained
C17_Witness ==
  /\ pc = "returned"
  /\ threads = 1
  /\ st[0] = "failed"
  /\ st[1] = "done"
  /\ 1 \in fetched

\* ---------------------------------------------------------------- C18
\* chunk ids around the widths at which the zero padding stops
PaddingEdges == {0, 1, 9, 10, 11, 99, 100, 101, 999, 1000, 1001}

\* C18: at most `threads` _download_chunk calls are in progress at any time,
\* a chunk whose call has ended (or that was skipped) is never queued or run
\* again, and the calls in progress write part files of different names (the
\* names the plan is about to give to different chunk ids are different).
C18_BoundedPoolDistinctParts ==
  /\ [](Cardinality({c \in ChunkIds : st[c] = "running"}) <= threads)
  /\ [](\A c, d \in ChunkIds :
          (st[c] = "running" /\ st[d] = "running" /\ c # d) => PartName(c) # PartName(d))
  /\ [](pc = "plan" =>
          \A i, j \in ChunkIds \cup PaddingEdges : i # j => PartName(i) # PartName(j))
  /\ [][ \A c \in ChunkIds :
           st[c] \in {"skipped", "done", "failed"} => st'[c] = st[c] ]_vars

\* two workers, both busy, a third chunk waiting in the queue
C18_Witness ==
  /\ threads = 2
  /\ st[0] = "running"
  /\ st[1] = "running"
  /\ st[2] = "queued"

\* ---------------------------------------------------------------- C19
\* the ways start() returns before its plan: no file name, "File not found",
\* any other failure of link acquisition, no URL, no file size
AbortPcs == {"ret_info", "ret_not_found", "ret_link_error", "ret_no_urls", "ret_no_size"}

\* C19: the session gets past step 1 only with a file name, to its HEAD request
\* only with a URL and to its plan only with a size; a session that failed at
\* one of these has planned nothing, issued no ranged request and can take no
\* further step (so the assembler never runs); and no step up to that point
\* creates, changes or removes a part file or the destination.
C19_EarlyFailureAbortsSession ==
  /\ [](pc \notin {"info", "ret_info"} => filename # "None")
  /\ [](pc \in {"head", "plan", "ret_no_size"} => urls # <<>>)
  /\ [](pc = "plan" => total_size # Absent)
  /\ [](pc \in AbortPcs =>
          /\ total_size = Absent /\ chunks = <<>> /\ fetched = {}
          /\ \A c \in ChunkIds : st[c] = "none"
          /\ pbar = 0 /\ ~complete
          /\ ~ENABLED Next)
  /\ [][dest' = dest /\ part' = part]_vars

\* the HEAD request failed: the older destination and the leftover part file
\* are still there
C19_Witness ==
  /\ pc = "ret_no_size"
  /\ dest = OldFile
  /\ part[0] = 1

\* ---------------------------------------------------------------- C20
\* C20: the progress counter never exceeds the file's size, also when an
\* attempt that had streamed part of the body is retried, and it equals the
\* file's size once every planned chunk's part file is whole.
C20_ProgressBoundedByTotal ==
  (total_size # Absent /\ pc \in {"submit", "collect"}) =>
    /\ pbar <= total_size
    /\ (/\ sub_i > Len(chunks)
        /\ \A k \in 1..Len(chunks) : part[chunks[k].id] = chunks[k].size)
         => pbar = total_size

====
